---- MODULE Spec2Model ----
(***************************************************************************)
(* A model of pyts-tsparser: the deserializer that interprets a serialized *)
(* AST (src/unnamed/part_000, the deserializer module), the printer that   *)
(* renders and lints the result (src/src/printer.ts), the value model and  *)
(* the command-line entry point (both in src/src/types.ts).                *)
(*                                                                         *)
(* JavaScript values are tagged records, so that null, undefined, strings, *)
(* booleans, numbers, arrays and AST nodes stay distinct.  A call's        *)
(* outcome is a record [st, val, log]: st is "ok" or "throw", val the      *)
(* returned value or the thrown error, log the calls made on the way.      *)
(***************************************************************************)
EXTENDS Integers, Sequences, FiniteSets, TLC

VARIABLES
    input,        \* deserializer: the SerializedNode[] handed to the calls
    call,         \* deserializer: the last exported function called, and on which element
    result,       \* deserializer: the outcome of that call
    tableWrites,  \* how many times a call has assigned to or deleted from factoryMap
    pc,           \* printer: per invocation, "idle", "awaiting" (at the await of lintText) or "done"
    inv,          \* printer: per invocation, the function called and its arguments
    text,         \* printer: per invocation, the raw text the ts printer rendered
    linter,       \* printer: per invocation, the ESLint instance lintText created
    lintResult,   \* printer: per invocation, what linter.lintText resolved to
    out,          \* printer: per invocation, what the returned promise settled to
    eslint,       \* the style checker's answers so far, by (instance configuration, text)
    linterLog,    \* every ESLint instance created, in order of creation
    argv,         \* cli: the command-line arguments after the script name
    isTTY,        \* cli: whether stdin is an interactive terminal
    cliPc,        \* cli: where main is: "start", "readingStdin", "generating", "exited", "returned"
    cliOptions,   \* cli: what parseCliArgs returned
    stdinData,    \* cli: how the stdin stream ended, and with what text
    cliNodes,     \* cli: the argument main gave toTypeScriptFile
    generated,    \* cli: the outcome of toTypeScriptFile
    fsLog,        \* cli: the file-system calls made, in order, with their outcomes
    exitCode,     \* cli: <<c>> once process.exit(c) was called, <<>> before
    stdio         \* cli: what console.log and console.error wrote, in order

deserVars == <<input, call, result>>
printVars == <<pc, inv, text, linter, lintResult, out, eslint, linterLog>>
cliVars == <<argv, isTTY, cliPc, cliOptions, stdinData, cliNodes, generated, fsLog, exitCode, stdio>>
vars == <<input, call, result, tableWrites, pc, inv, text, linter, lintResult, out, eslint, linterLog,
          argv, isTTY, cliPc, cliOptions, stdinData, cliNodes, generated, fsLog, exitCode, stdio>>

(***************************************************************************)
(* Bounds                                                                  *)
(***************************************************************************)
\* The serialized input holds at most this many nodes in all.
MaxNodes == 3

(***************************************************************************)
(* JavaScript values                                                       *)
(***************************************************************************)
JNull == [t |-> "null"]
JUndefined == [t |-> "undefined"]
JNaN == [t |-> "NaN"]
JBool(b) == [t |-> "boolean", b |-> b]
JStr(s) == [t |-> "string", s |-> s]
JNum(n) == [t |-> "number", n |-> n]
JArray(elems) == [t |-> "array", elems |-> elems]
\* a plain object that is no AST node (what Object(...) returns for a primitive)
JObject == [t |-> "object"]
\* the ts.Node a ts.factory method returns: the method that built it and its arguments
TsNode(name, args) == [t |-> "node", factory |-> name, args |-> args]

JsError(msg) == [t |-> "error", name |-> "Error", message |-> msg]
JsTypeError(msg) == [t |-> "error", name |-> "TypeError", message |-> msg]

Ok(v, log) == [st |-> "ok", val |-> v, log |-> log]
Throw(e, log) == [st |-> "throw", val |-> e, log |-> log]

\* log entries
EvDeserialize(node) == [ev |-> "deserialize", node |-> node]
EvInvoke(name, args) == [ev |-> "invoke", name |-> name, args |-> args]

(***************************************************************************)
(* types.ts: the serialized format and its type guards                     *)
(***************************************************************************)
SerializedLiteral(v) == [type |-> "literal", value |-> v]
SerializedNumber(v) == [type |-> "number", value |-> v]
SerializedUndefined == [type |-> "undefined"]
SerializedFactory(name, args) == [type |-> "factory", name |-> name, args |-> args]

isLiteral(node) == node.type = "literal"
isUndefined(node) == node.type = "undefined"
isNumber(node) == node.type = "number"
isFactory(node) == node.type = "factory"

(***************************************************************************)
(* The deserializer module                                                 *)
(***************************************************************************)
\* the own keys of the factoryMap object literal
factoryMap ==
    { "createToken",
      "createIdentifier", "createPrivateIdentifier", "createQualifiedName",
      "createStringLiteral", "createNumericLiteral", "createBigIntLiteral",
      "createRegularExpressionLiteral", "createNoSubstitutionTemplateLiteral",
      "createTrue", "createFalse", "createNull",
      "createArrayLiteralExpression", "createObjectLiteralExpression",
      "createPropertyAccessExpression", "createElementAccessExpression",
      "createCallExpression", "createNewExpression",
      "createTaggedTemplateExpression", "createTypeAssertion",
      "createParenthesizedExpression", "createFunctionExpression",
      "createArrowFunction", "createDeleteExpression", "createTypeOfExpression",
      "createVoidExpression", "createAwaitExpression",
      "createPrefixUnaryExpression", "createPostfixUnaryExpression",
      "createBinaryExpression", "createConditionalExpression",
      "createTemplateExpression", "createYieldExpression", "createSpreadElement",
      "createClassExpression", "createOmittedExpression", "createAsExpression",
      "createNonNullExpression", "createSatisfiesExpression",
      "createBlock", "createEmptyStatement", "createVariableStatement",
      "createExpressionStatement", "createIfStatement", "createDoStatement",
      "createWhileStatement", "createForStatement", "createForInStatement",
      "createForOfStatement", "createContinueStatement", "createBreakStatement",
      "createReturnStatement", "createWithStatement", "createSwitchStatement",
      "createLabeledStatement", "createThrowStatement", "createTryStatement",
      "createDebuggerStatement",
      "createVariableDeclaration", "createVariableDeclarationList",
      "createFunctionDeclaration", "createClassDeclaration",
      "createInterfaceDeclaration", "createTypeAliasDeclaration",
      "createEnumDeclaration", "createModuleDeclaration",
      "createImportDeclaration", "createImportClause", "createNamespaceImport",
      "createNamedImports", "createImportSpecifier", "createExportAssignment",
      "createExportDeclaration", "createNamedExports", "createExportSpecifier",
      "createTypeReferenceNode", "createTypeQueryNode", "createArrayTypeNode",
      "createTupleTypeNode", "createUnionTypeNode", "createIntersectionTypeNode",
      "createLiteralTypeNode", "createFunctionTypeNode", "createTypeLiteralNode",
      "createTypeOperatorNode", "createIndexedAccessTypeNode",
      "createPropertySignature",
      "createPropertyDeclaration", "createMethodDeclaration",
      "createConstructorDeclaration", "createGetAccessorDeclaration",
      "createSetAccessorDeclaration", "createIndexSignature",
      "createClassStaticBlockDeclaration",
      "createPropertyAssignment", "createShorthandPropertyAssignment",
      "createSpreadAssignment",
      "createObjectBindingPattern", "createArrayBindingPattern",
      "createBindingElement",
      "createParameterDeclaration", "createTypeParameterDeclaration",
      "createDecorator", "createHeritageClause",
      "createExpressionWithTypeArguments", "createCatchClause",
      "createCaseClause", "createDefaultClause", "createCaseBlock",
      "createTemplateHead", "createTemplateMiddle", "createTemplateTail",
      "createTemplateSpan",
      "createKeywordTypeNode" }

\* factoryMap is an object literal, so a property read on it also finds what
\* Object.prototype holds.  These are the inherited properties the model follows.
ObjectPrototype == { "constructor", "toString", "valueOf", "hasOwnProperty", "__proto__" }

\* the factories under "// Statements", and the declarations and import/export
\* forms that ts.isStatement accepts
StatementFactories ==
    { "createBlock", "createEmptyStatement", "createVariableStatement",
      "createExpressionStatement", "createIfStatement", "createDoStatement",
      "createWhileStatement", "createForStatement", "createForInStatement",
      "createForOfStatement", "createContinueStatement", "createBreakStatement",
      "createReturnStatement", "createWithStatement", "createSwitchStatement",
      "createLabeledStatement", "createThrowStatement", "createTryStatement",
      "createDebuggerStatement",
      "createFunctionDeclaration", "createClassDeclaration",
      "createInterfaceDeclaration", "createTypeAliasDeclaration",
      "createEnumDeclaration", "createModuleDeclaration",
      "createImportDeclaration", "createExportAssignment",
      "createExportDeclaration" }

\* the factories under "// Common" (identifiers), "// Literals" and "// Expressions"
ExpressionFactories ==
    { "createIdentifier", "createPrivateIdentifier",
      "createStringLiteral", "createNumericLiteral", "createBigIntLiteral",
      "createRegularExpressionLiteral", "createNoSubstitutionTemplateLiteral",
      "createTrue", "createFalse", "createNull",
      "createArrayLiteralExpression", "createObjectLiteralExpression",
      "createPropertyAccessExpression", "createElementAccessExpression",
      "createCallExpression", "createNewExpression",
      "createTaggedTemplateExpression", "createTypeAssertion",
      "createParenthesizedExpression", "createFunctionExpression",
      "createArrowFunction", "createDeleteExpression", "createTypeOfExpression",
      "createVoidExpression", "createAwaitExpression",
      "createPrefixUnaryExpression", "createPostfixUnaryExpression",
      "createBinaryExpression", "createConditionalExpression",
      "createTemplateExpression", "createYieldExpression", "createSpreadElement",
      "createClassExpression", "createOmittedExpression", "createAsExpression",
      "createNonNullExpression", "createSatisfiesExpression" }

\* `${value.kind}`: the kind of an AST node; any other value that is not null or
\* undefined has no such property, and the template prints "undefined"
kindText(v) == IF v.t = "node" THEN "SyntaxKind(" \o v.factory \o ")" ELSE "undefined"

\* reading a property of null or undefined throws a TypeError
hasNoProperties(v) == v \in {JNull, JUndefined}

isStatement(v) == v.t = "node" /\ v.factory \in StatementFactories
isExpression(v) == v.t = "node" /\ v.factory \in ExpressionFactories

\* parseFloat on the numeric strings of the model
parseFloat(s) ==
    CASE s = "42" -> JNum(42)
      [] s = "7" -> JNum(7)
      [] OTHER -> JNaN

\* factoryMap[name]: "own" for a key of the literal, "inherited" for a property of
\* Object.prototype, "undefined" otherwise
factoryLookup(name) ==
    IF name \in factoryMap THEN "own"
    ELSE IF name \in ObjectPrototype THEN "inherited"
    ELSE "undefined"

\* the value `!factory` tests: only undefined is falsy here
factoryMissing(name) == factoryLookup(name) = "undefined"

\* factory(...args) for an own key: the ts.factory method builds a node
\* factory(...args) for an inherited property: a plain call, `this` undefined
invokeFactory(name, args) ==
    IF factoryLookup(name) = "own" THEN Ok(TsNode(name, args), <<EvInvoke(name, args)>>)
    ELSE IF name = "toString" THEN Ok(JStr("[object Undefined]"), <<EvInvoke(name, args)>>)
    ELSE IF name = "constructor"
        THEN Ok(IF args # <<>> /\ args[1].t \in {"node", "array", "object"}
                    THEN args[1] ELSE JObject,
                <<EvInvoke(name, args)>>)
    ELSE IF name = "__proto__" THEN Throw(JsTypeError("factory is not a function"), <<>>)
    ELSE Throw(JsTypeError("Cannot convert undefined or null to object"),
               <<EvInvoke(name, args)>>)

RECURSIVE deserialize(_)
RECURSIVE deserializeFactory(_)
RECURSIVE mapDeserialize(_)

\* a variant that widens null to undefined, as the doc comment of deserialize describes
deserializeLiteralWidened(node) == IF node.value = JNull THEN JUndefined ELSE node.value

\* a literal node's payload, as returned
deserializeLiteral(node) == node.value

\* a number node's payload, parsed when it is a string
deserializeNumber(node) ==
    IF node.value.t = "string" THEN parseFloat(node.value.s) ELSE node.value

\* a variant that evaluates the last argument first
mapDeserializeReversed(args) ==
    IF args = <<>> THEN Ok(<<>>, <<>>)
    ELSE LET r == mapDeserialize(Tail(args)) IN
         IF r.st = "throw" THEN r
         ELSE LET h == deserialize(Head(args)) IN
              IF h.st = "throw" THEN Throw(h.val, r.log \o h.log)
              ELSE Ok(<<h.val>> \o r.val, r.log \o h.log)

\* node.args.map(deserialize): left to right, the first throw ends it
mapDeserialize(args) ==
    IF args = <<>> THEN Ok(<<>>, <<>>)
    ELSE LET h == deserialize(Head(args)) IN
         IF h.st = "throw" THEN h
         ELSE LET r == mapDeserialize(Tail(args)) IN
              IF r.st = "throw" THEN Throw(r.val, h.log \o r.log)
              ELSE Ok(<<h.val>> \o r.val, h.log \o r.log)

\* a variant without the __array__ branch: the sentinel goes to the table like any name
deserializeFactoryNoSentinel(node) ==
    IF factoryMissing(node.name)
        THEN Throw(JsError("Unknown factory method: " \o node.name), <<>>)
    ELSE LET a == mapDeserialize(node.args) IN
         IF a.st = "throw" THEN a
         ELSE LET f == invokeFactory(node.name, a.val) IN
              [f EXCEPT !.log = a.log \o f.log]

deserializeFactory(node) ==
    IF node.name = "__array__"
        THEN LET a == mapDeserialize(node.args) IN
             IF a.st = "throw" THEN a ELSE Ok(JArray(a.val), a.log)
    ELSE IF factoryMissing(node.name)
        THEN Throw(JsError("Unknown factory method: " \o node.name), <<>>)
    ELSE LET a == mapDeserialize(node.args) IN
         IF a.st = "throw" THEN a
         ELSE LET f == invokeFactory(node.name, a.val) IN
              [f EXCEPT !.log = a.log \o f.log]

\* a variant that takes a node of unknown type for an undefined one
deserializeLenient(node) ==
    LET body ==
        IF isLiteral(node) THEN Ok(deserializeLiteral(node), <<>>)
        ELSE IF isNumber(node) THEN Ok(deserializeNumber(node), <<>>)
        ELSE IF isFactory(node) THEN deserializeFactory(node)
        ELSE Ok(JUndefined, <<>>)
    IN [body EXCEPT !.log = <<EvDeserialize(node)>> \o body.log]

deserialize(node) ==
    LET body ==
        IF isLiteral(node) THEN Ok(deserializeLiteral(node), <<>>)
        ELSE IF isUndefined(node) THEN Ok(JUndefined, <<>>)
        ELSE IF isNumber(node) THEN Ok(deserializeNumber(node), <<>>)
        ELSE IF isFactory(node) THEN deserializeFactory(node)
        ELSE Throw(JsError("Unknown node type: " \o node.type), <<>>)
    IN [body EXCEPT !.log = <<EvDeserialize(node)>> \o body.log]

deserializeStatement(node) ==
    LET r == deserialize(node) IN
    IF r.st = "throw" THEN r
    ELSE IF hasNoProperties(r.val)
        THEN Throw(JsTypeError("Cannot read properties of " \o r.val.t \o " (reading 'kind')"), r.log)
    ELSE IF ~isStatement(r.val)
        THEN Throw(JsError("Expected a statement, got: " \o kindText(r.val)), r.log)
    ELSE r

deserializeExpression(node) ==
    LET r == deserialize(node) IN
    IF r.st = "throw" THEN r
    ELSE IF hasNoProperties(r.val)
        THEN Throw(JsTypeError("Cannot read properties of " \o r.val.t \o " (reading 'kind')"), r.log)
    ELSE IF ~isExpression(r.val)
        THEN Throw(JsError("Expected an expression, got: " \o kindText(r.val)), r.log)
    ELSE r

deserializeDeclaration(node) == deserialize(node)

RECURSIVE deserializeStatements(_)
RECURSIVE deserializeStatementsSkipping(_)
\* a variant that drops the elements that fail and keeps the rest
deserializeStatementsSkipping(nodes) ==
    IF nodes = <<>> THEN Ok(<<>>, <<>>)
    ELSE LET h == deserializeStatement(Head(nodes))
             r == deserializeStatementsSkipping(Tail(nodes))
         IN Ok((IF h.st = "throw" THEN <<>> ELSE <<h.val>>) \o r.val, h.log \o r.log)

\* nodes.map(deserializeStatement)
deserializeStatements(nodes) ==
    IF nodes = <<>> THEN Ok(<<>>, <<>>)
    ELSE LET h == deserializeStatement(Head(nodes)) IN
         IF h.st = "throw" THEN h
         ELSE LET r == deserializeStatements(Tail(nodes)) IN
              IF r.st = "throw" THEN Throw(r.val, h.log \o r.log)
              ELSE Ok(<<h.val>> \o r.val, h.log \o r.log)

(***************************************************************************)
(* The inputs of the deserializer                                          *)
(***************************************************************************)
\* childless nodes: the three literal payloads, undefined, two numbers, and a
\* node whose discriminant is none of the four
LeafNodes ==
    { SerializedLiteral(JNull), SerializedLiteral(JBool(TRUE)),
      SerializedLiteral(JStr("hi")), SerializedUndefined,
      SerializedNumber(JStr("42")), [type |-> "template"] }

\* factory names: two expression/statement factories with arguments, one without,
\* the array sentinel, a name no object has, and a name Object.prototype has
FactoryNames ==
    { "createIdentifier", "createExpressionStatement", "createEmptyStatement",
      "__array__", "bogusThing", "toString" }

RECURSIVE SizeTable(_)
\* entry j + 1 holds the serialized nodes (trees) and the sequences of them
\* (forests) that hold exactly j nodes in all, for j in 0..k
SizeTable(k) ==
    IF k = 0 THEN << [trees |-> {}, forests |-> { <<>> }] >>
    ELSE LET prev == SizeTable(k - 1)
             trees == (IF k = 1 THEN LeafNodes ELSE {})
                      \cup { SerializedFactory(n, f) : n \in FactoryNames, f \in prev[k].forests }
             treesOf(j) == IF j = k THEN trees ELSE prev[j + 1].trees
             forests == UNION { { <<t>> \o f : t \in treesOf(j), f \in prev[k - j + 1].forests }
                                : j \in 1..k }
         IN Append(prev, [trees |-> trees, forests |-> forests])

\* the forests of at most MaxNodes - 1 nodes, by size
ForestTable == SizeTable(MaxNodes - 1)
ForestsOfSize(k) == ForestTable[k + 1].forests

\* x ranges over every SerializedNode[] of at most MaxNodes nodes: a first
\* node of j nodes, then a forest of the remaining nodes
IsInput(x) ==
    \E k \in 0..MaxNodes :
        IF k = 0 THEN x = <<>>
        ELSE \E j \in 1..k :
                \E f \in ForestsOfSize(j - 1), rest \in ForestsOfSize(k - j) :
                    \E head \in (IF j = 1 THEN LeafNodes ELSE {})
                                 \cup { SerializedFactory(n, f) : n \in FactoryNames } :
                        x = <<head>> \o rest

NoCall == [op |-> "none", idx |-> 0]
NoResult == [st |-> "none", val |-> JUndefined, log |-> <<>>]

\* the printer's variables when no print function is ever called
NoPrinting ==
    /\ pc = <<>> /\ inv = <<>> /\ text = <<>> /\ linter = <<>>
    /\ lintResult = <<>> /\ out = <<>> /\ eslint = <<>> /\ linterLog = <<>>

\* what main has before it has asked for it
NoOptions == [none |-> TRUE]
NoStdinData == [st |-> "none", text |-> ""]

\* the command-line entry point's variables when main is never run
NoCli ==
    /\ argv = <<>> /\ isTTY = FALSE /\ cliPc = "none" /\ cliOptions = NoOptions
    /\ stdinData = NoStdinData /\ cliNodes = <<>> /\ generated = NoResult
    /\ fsLog = <<>> /\ exitCode = <<>> /\ stdio = <<>>

(***************************************************************************)
(* The deserializer's exported functions, called on the input              *)
(***************************************************************************)
Init ==
    /\ IsInput(input)
    /\ call = NoCall
    /\ result = NoResult
    /\ tableWrites = 0
    /\ NoPrinting
    /\ NoCli

Deserialize(i) ==
    /\ call = NoCall
    /\ call' = [op |-> "deserialize", idx |-> i]
    /\ result' = deserialize(input[i])
    /\ UNCHANGED <<input, tableWrites, printVars, cliVars>>

DeserializeStatement(i) ==
    /\ call = NoCall
    /\ call' = [op |-> "deserializeStatement", idx |-> i]
    /\ result' = deserializeStatement(input[i])
    /\ UNCHANGED <<input, tableWrites, printVars, cliVars>>

DeserializeExpression(i) ==
    /\ call = NoCall
    /\ call' = [op |-> "deserializeExpression", idx |-> i]
    /\ result' = deserializeExpression(input[i])
    /\ UNCHANGED <<input, tableWrites, printVars, cliVars>>

DeserializeDeclaration(i) ==
    /\ call = NoCall
    /\ call' = [op |-> "deserializeDeclaration", idx |-> i]
    /\ result' = deserializeDeclaration(input[i])
    /\ UNCHANGED <<input, tableWrites, printVars, cliVars>>

DeserializeStatements ==
    /\ call = NoCall
    /\ call' = [op |-> "deserializeStatements", idx |-> 0]
    /\ result' = deserializeStatements(input)
    /\ UNCHANGED <<input, tableWrites, printVars, cliVars>>

\* the caller takes the outcome; the next call starts afresh
Return ==
    /\ call # NoCall
    /\ call' = NoCall
    /\ result' = NoResult
    /\ UNCHANGED <<input, tableWrites, printVars, cliVars>>

Next ==
    \/ \E i \in 1..Len(input) : Deserialize(i)
    \/ \E i \in 1..Len(input) : DeserializeStatement(i)
    \/ \E i \in 1..Len(input) : DeserializeExpression(i)
    \/ \E i \in 1..Len(input) : DeserializeDeclaration(i)
    \/ DeserializeStatements
    \/ Return

Spec == Init /\ [][Next]_vars

(***************************************************************************)
(* printer.ts                                                              *)
(***************************************************************************)
\* Bounds
\* printNodes, printFile and printNodeList get at most this many nodes
MaxListLen == 2
\* the style checker reports at most this many messages
MaxMessages == 2
\* the print invocations in flight together
NumInvocations == 2

\* JavaScript's ToBoolean, and the test of ??
truthy(v) ==
    CASE v.t = "boolean" -> v.b
      [] v.t = "number" -> v.n # 0
      [] v.t = "string" -> v.s # ""
      [] v.t \in {"undefined", "null", "NaN"} -> FALSE
      [] OTHER -> TRUE
nullish(v) == v \in {JNull, JUndefined}

\* a PrinterOptions object: each property a value or absent (undefined)
PrinterOptions(sq, tn, iw, rc) ==
    [singleQuote |-> sq, trailingNewline |-> tn, indentWidth |-> iw, removeComments |-> rc]
OptionalBoolean == {JUndefined, JBool(TRUE), JBool(FALSE)}
OptionalWidth == {JUndefined, JNum(0), JNum(4)}
AllPrinterOptions ==
    { PrinterOptions(sq, tn, iw, rc) :
        sq \in OptionalBoolean, tn \in OptionalBoolean,
        iw \in OptionalWidth, rc \in OptionalBoolean }
DefaultOptions == PrinterOptions(JUndefined, JUndefined, JUndefined, JUndefined)

\* The shared configurations createLinter spreads into overrideConfig.  Their
\* rule lists belong to the packages; one rule of each stands for the list.
jsRecommended == [name |-> "js/recommended", rules |-> ("no-unused-vars" :> <<"error">>)]
tsStrict ==
    [name |-> "typescript-eslint/strict",
     rules |-> ("@typescript-eslint/no-explicit-any" :> <<"error">>)]
tsStylistic ==
    [name |-> "typescript-eslint/stylistic",
     rules |-> ("@typescript-eslint/consistent-type-definitions" :> <<"error">>)]

\* a variant that tests the options for truthiness where the code tests for
\* undefined and false
createLinterTruthy(options) ==
    [ plugins |-> {"js", "typescript"},
      overrideConfig |->
        << jsRecommended, tsStrict, tsStylistic,
           [name |-> "defineConfig",
            rules |->
                ("indent" :> <<"error", IF truthy(options.indentWidth)
                                            THEN options.indentWidth.n ELSE 2>>)
                @@ ("quotes" :> <<"error", IF truthy(options.singleQuote)
                                              THEN "single" ELSE "double">>)
                @@ ("eol-last" :> <<"error", IF truthy(options.trailingNewline)
                                                THEN "always" ELSE "never">>)
                @@ ("@typescript-eslint/prefer-as-const" :> <<"error">>)] >>,
      overrideConfigFile |-> TRUE,
      fix |-> TRUE ]

\* new eslint.ESLint({...}): the instance is its configuration
createLinter(options) ==
    [ plugins |-> {"js", "typescript"},
      overrideConfig |->
        << jsRecommended, tsStrict, tsStylistic,
           [name |-> "defineConfig",
            rules |->
                ("indent" :> <<"error", IF nullish(options.indentWidth)
                                            THEN 2 ELSE options.indentWidth.n>>)
                @@ ("quotes" :> <<"error", IF truthy(options.singleQuote)
                                              THEN "single" ELSE "double">>)
                @@ ("eol-last" :> <<"error", IF options.trailingNewline = JBool(FALSE)
                                                THEN "never" ELSE "always">>)
                @@ ("@typescript-eslint/prefer-as-const" :> <<"error">>)] >>,
      overrideConfigFile |-> TRUE,
      fix |-> TRUE ]

\* the rules that are switched on in an instance, whatever configuration sets them
ActiveRules(l) == UNION { DOMAIN l.overrideConfig[k].rules : k \in 1..Len(l.overrideConfig) }

\* ts.createPrinter({newLine, removeComments})
createPrinter(options) ==
    [ newLine |-> "LineFeed",
      removeComments |-> IF nullish(options.removeComments)
                            THEN FALSE ELSE options.removeComments.b ]

RECURSIVE emitNode(_)
\* printer.printNode(ts.EmitHint.Unspecified, node, sourceFile) for the nodes
\* of the model; nodes built by ts.factory carry no comments
emitNode(node) ==
    CASE node.factory = "createIdentifier" -> node.args[1].s
      [] node.factory = "createStringLiteral" -> "\"" \o node.args[1].s \o "\""
      [] node.factory = "createOmittedExpression" -> ""
      [] node.factory = "createEmptyStatement" -> ";"
      [] node.factory = "createExpressionStatement" -> emitNode(node.args[1]) \o ";"

RECURSIVE joinLines(_)
\* parts.join('\n')
joinLines(parts) ==
    IF parts = <<>> THEN ""
    ELSE IF Len(parts) = 1 THEN parts[1]
    ELSE parts[1] \o "\n" \o joinLines(Tail(parts))

RECURSIVE emitLines(_)
\* printer.printFile and printer.printList(MultiLine): every node on a line of
\* its own; the line break is written only after a line that holds something
emitLines(nodes) ==
    IF nodes = <<>> THEN ""
    ELSE LET e == emitNode(Head(nodes)) IN
         (IF e = "" THEN "" ELSE e \o "\n") \o emitLines(Tail(nodes))

\* the raw text each print function hands on
printNodeText(node) == emitNode(node)
printNodesText(nodes) == joinLines([k \in 1..Len(nodes) |-> emitNode(nodes[k])])
printFileText(statements) == emitLines(statements)
printNodeListText(nodes) == emitLines(nodes)

\* the diagnostics of the model
LintMessages ==
    { [line |-> 1, column |-> 7, message |-> "Unexpected any. Specify a different type."],
      [line |-> 2, column |-> 1, message |-> "Parsing error: Expression expected."] }
MessageLists == UNION { [1..n -> LintMessages] : n \in 0..MaxMessages }

\* what linter.lintText(text, {filePath}) may resolve to: no result at all, or
\* one result with or without fixed output and with the messages left over
LintResults(t) ==
    { <<>> } \cup
    { << [output |-> o, messages |-> ms] >> :
        o \in {JUndefined, JStr(""), JStr(t \o "\n")}, ms \in MessageLists }

\* `${m.line}:${m.column} ${m.message}`
formatMessage(m) == ToString(m.line) \o ":" \o ToString(m.column) \o " " \o m.message

\* a variant that takes the fixed output only when it is truthy
lintTextTruthy(t, r) ==
    IF r # <<>> /\ truthy(r[1].output) THEN Ok(r[1].output, <<>>)
    ELSE IF r = <<>> \/ Len(r[1].messages) = 0 THEN Ok(JStr(t), <<>>)
    ELSE Throw(JsError("unable to lint printed node:\n\n" \o t \o "\n\nErrors:\n"
                       \o joinLines([k \in 1..Len(r[1].messages) |->
                                        formatMessage(r[1].messages[k])])), <<>>)

\* lintText after its await: r is what linter.lintText resolved to
lintText(t, r) ==
    IF r # <<>> /\ r[1].output # JUndefined THEN Ok(r[1].output, <<>>)
    ELSE IF r = <<>> \/ Len(r[1].messages) = 0 THEN Ok(JStr(t), <<>>)
    ELSE Throw(JsError("unable to lint printed node:\n\n" \o t \o "\n\nErrors:\n"
                       \o joinLines([k \in 1..Len(r[1].messages) |->
                                        formatMessage(r[1].messages[k])])), <<>>)

NoInvocation == [op |-> "none", nodes |-> <<>>, options |-> DefaultOptions]
NoLinter == [t |-> "none"]
NoLintResult == << [t |-> "none"] >>
NoOutcome == [st |-> "none", val |-> JUndefined, log |-> <<>>]

\* a variant in which the instance is kept in one module-level variable, so
\* that lintText uses the instance created last
linterShared(i) == linterLog[Len(linterLog)]

\* the `linter` constant of invocation i's lintText
linterOf(i) == linter[i]

\* the call returns "" before lintText is reached
ReturnEmpty(i, c) ==
    /\ pc' = [pc EXCEPT ![i] = "done"]
    /\ inv' = [inv EXCEPT ![i] = c]
    /\ text' = [text EXCEPT ![i] = ""]
    /\ out' = [out EXCEPT ![i] = Ok(JStr(""), <<>>)]
    /\ UNCHANGED <<linter, lintResult, eslint, linterLog>>

\* lintText(text, options) up to its await: the instance is created and asked
AwaitLint(i, c, t) ==
    /\ pc' = [pc EXCEPT ![i] = "awaiting"]
    /\ inv' = [inv EXCEPT ![i] = c]
    /\ text' = [text EXCEPT ![i] = t]
    /\ linter' = [linter EXCEPT ![i] = createLinter(c.options)]
    /\ linterLog' = Append(linterLog, createLinter(c.options))
    /\ UNCHANGED <<lintResult, out, eslint>>

PrintNode(i, node, options) ==
    /\ pc[i] = "idle"
    /\ LET c == [op |-> "printNode", nodes |-> <<node>>, options |-> options]
           t == printNodeText(node)
       IN IF t = "" THEN ReturnEmpty(i, c) ELSE AwaitLint(i, c, t)
    /\ UNCHANGED <<deserVars, tableWrites, cliVars>>

PrintNodes(i, nodes, options) ==
    /\ pc[i] = "idle"
    /\ LET c == [op |-> "printNodes", nodes |-> nodes, options |-> options]
           t == printNodesText(nodes)
       IN IF t = "" THEN ReturnEmpty(i, c) ELSE AwaitLint(i, c, t)
    /\ UNCHANGED <<deserVars, tableWrites, cliVars>>

PrintFile(i, statements, options) ==
    /\ pc[i] = "idle"
    /\ LET c == [op |-> "printFile", nodes |-> statements, options |-> options]
           t == printFileText(statements)
       IN IF t = "" THEN ReturnEmpty(i, c) ELSE AwaitLint(i, c, t)
    /\ UNCHANGED <<deserVars, tableWrites, cliVars>>

PrintNodeList(i, nodes, options) ==
    /\ pc[i] = "idle"
    /\ LET c == [op |-> "printNodeList", nodes |-> nodes, options |-> options]
       IN AwaitLint(i, c, printNodeListText(nodes))
    /\ UNCHANGED <<deserVars, tableWrites, cliVars>>

\* the await of lintText resumes with r; the style checker answers the same
\* question the same way every time
LintResolves(i, r) ==
    /\ pc[i] = "awaiting"
    /\ LET key == [linter |-> linterOf(i), text |-> text[i]] IN
        /\ key \in DOMAIN eslint => r = eslint[key]
        /\ eslint' = (key :> r) @@ eslint
    /\ lintResult' = [lintResult EXCEPT ![i] = r]
    /\ out' = [out EXCEPT ![i] = lintText(text[i], r)]
    /\ pc' = [pc EXCEPT ![i] = "done"]
    /\ UNCHANGED <<inv, text, linter, linterLog, deserVars, tableWrites, cliVars>>

\* the AST nodes handed to the print functions: one that prints to nothing,
\* an expression and a statement
PrintableNodes ==
    { TsNode("createOmittedExpression", <<>>),
      TsNode("createStringLiteral", <<JStr("hi")>>),
      TsNode("createExpressionStatement", <<TsNode("createIdentifier", <<JStr("x")>>)>>) }
NodeLists == UNION { [1..n -> PrintableNodes] : n \in 0..MaxListLen }

InitPrinting(ids, nodes) ==
    /\ input = nodes /\ call = NoCall /\ result = NoResult /\ tableWrites = 0
    /\ pc = [i \in ids |-> "idle"]
    /\ inv = [i \in ids |-> NoInvocation]
    /\ text = [i \in ids |-> ""]
    /\ linter = [i \in ids |-> NoLinter]
    /\ lintResult = [i \in ids |-> NoLintResult]
    /\ out = [i \in ids |-> NoOutcome]
    /\ eslint = <<>>
    /\ linterLog = <<>>
    /\ NoCli

\* one invocation at a time, over every PrinterOptions value
InitPrint == InitPrinting({1}, <<>>)

NextPrint ==
    \/ \E i \in DOMAIN pc : pc[i] = "idle" /\ \E n \in PrintableNodes, o \in AllPrinterOptions : PrintNode(i, n, o)
    \/ \E i \in DOMAIN pc : pc[i] = "idle" /\ \E ns \in NodeLists, o \in AllPrinterOptions : PrintNodes(i, ns, o)
    \/ \E i \in DOMAIN pc : pc[i] = "idle" /\ \E ns \in NodeLists, o \in AllPrinterOptions : PrintFile(i, ns, o)
    \/ \E i \in DOMAIN pc : pc[i] = "idle" /\ \E ns \in NodeLists, o \in AllPrinterOptions : PrintNodeList(i, ns, o)
    \/ \E i \in DOMAIN pc : pc[i] = "awaiting" /\ \E r \in LintResults(text[i]) : LintResolves(i, r)

SpecPrint == InitPrint /\ [][NextPrint]_vars

\* several print invocations in flight, and deserialize calls between their
\* steps, over a few arguments and answers
ConcurrentOptions == { DefaultOptions, PrinterOptions(JBool(TRUE), JBool(FALSE), JNum(4), JUndefined) }
ConcurrentNodes == { TsNode("createStringLiteral", <<JStr("hi")>>) }
ConcurrentLists == { <<>>, <<TsNode("createStringLiteral", <<JStr("hi")>>)>> }
ConcurrentResults(t) ==
    { << [output |-> JUndefined, messages |-> <<>>] >>,
      << [output |-> JStr(t \o "\n"), messages |-> <<>>] >>,
      << [output |-> JUndefined,
          messages |-> << [line |-> 1, column |-> 7,
                           message |-> "Unexpected any. Specify a different type."] >>] >> }

\* the serialized input of the deserialize calls made alongside
ConcurrentInput ==
    << SerializedFactory("createExpressionStatement",
          << SerializedFactory("createIdentifier", <<SerializedLiteral(JStr("x"))>>) >>) >>

InitConcurrent == InitPrinting(1..NumInvocations, ConcurrentInput)

NextConcurrent ==
    \/ \E i \in DOMAIN pc : pc[i] = "idle" /\ \E n \in ConcurrentNodes, o \in ConcurrentOptions : PrintNode(i, n, o)
    \/ \E i \in DOMAIN pc : pc[i] = "idle" /\ \E ns \in ConcurrentLists, o \in ConcurrentOptions : PrintNodes(i, ns, o)
    \/ \E i \in DOMAIN pc : pc[i] = "idle" /\ \E ns \in ConcurrentLists, o \in ConcurrentOptions : PrintFile(i, ns, o)
    \/ \E i \in DOMAIN pc : pc[i] = "idle" /\ \E ns \in ConcurrentLists, o \in ConcurrentOptions : PrintNodeList(i, ns, o)
    \/ \E i \in DOMAIN pc : pc[i] = "awaiting" /\ \E r \in ConcurrentResults(text[i]) : LintResolves(i, r)
    \/ \E i \in 1..Len(input) : Deserialize(i)
    \/ DeserializeStatements
    \/ Return

SpecConcurrent == InitConcurrent /\ [][NextConcurrent]_vars

(***************************************************************************)
(* The command-line entry point (src/src/types.ts, from line 74)           *)
(***************************************************************************)
\* The command line holds at most this many arguments.
MaxArgs == 3

VERSION == "1.0.0"

\* the arguments a command line is made of: the three options, an option the
\* program does not have, two paths and the empty string
ArgTokens == { "--version", "--help", "-o", "-x", "out.ts", "gen/out.ts", "" }
OptionLike == { "--version", "--help", "-o", "-x" }
Argvs == UNION { [1..n -> ArgTokens] : n \in 0..MaxArgs }

CliOptions(output, help, version) ==
    [output |-> output, help |-> help, version |-> version]

RECURSIVE parseArgs(_, _)
\* util.parseArgs in strict mode with the options output (string, short o),
\* help (boolean, short h) and version (boolean), and no positionals: the
\* values given, a key that was not given being undefined; the last of a
\* repeated option wins
parseArgs(args, values) ==
    IF args = <<>> THEN Ok(values, <<>>)
    ELSE LET a == Head(args) IN
         IF a = "--version"
            THEN parseArgs(Tail(args), [values EXCEPT !.version = JBool(TRUE)])
         ELSE IF a \in {"--help", "-h"}
            THEN parseArgs(Tail(args), [values EXCEPT !.help = JBool(TRUE)])
         ELSE IF a \in {"--output", "-o"}
            THEN IF Len(args) < 2
                    THEN Throw(JsTypeError("Option '-o, --output <value>' argument missing"), <<>>)
                 ELSE IF args[2] \in OptionLike
                    THEN Throw(JsTypeError("Option '-o, --output <value>' argument is ambiguous"), <<>>)
                 ELSE parseArgs(Tail(Tail(args)), [values EXCEPT !.output = JStr(args[2])])
         ELSE IF a \in OptionLike
            THEN Throw(JsTypeError("Unknown option '" \o a \o "'"), <<>>)
         ELSE Throw(JsTypeError("Unexpected argument '" \o a \o "'"), <<>>)

parseCliArgs(args) == parseArgs(args, CliOptions(JUndefined, JUndefined, JUndefined))

\* a variant that asks for the output path before it looks at --version and --help
optionsVerdictOutputFirst(o) ==
    IF ~truthy(o.output) THEN "noOutput"
    ELSE IF truthy(o.version) THEN "version"
    ELSE IF truthy(o.help) THEN "help"
    ELSE "run"

\* the three tests main makes on the options, in its order
optionsVerdict(o) ==
    IF truthy(o.version) THEN "version"
    ELSE IF truthy(o.help) THEN "help"
    ELSE IF ~truthy(o.output) THEN "noOutput"
    ELSE "run"

\* printHelp: one console.log of the usage text
printHelp == << [stream |-> "stdout", line |-> "\ntsparser - TypeScript AST to code generator\n..."] >>

\* the texts stdin delivers: nothing, white space only, broken JSON, and JSON
\* for an empty array, a node, an array of one node, null, and a padded array
StdinTexts ==
    { "", " \n", "{oops", "[]", "{\"type\":\"undefined\"}",
      "[{\"type\":\"undefined\"}]", "null", " [null] \n" }

\* String.prototype.trim on these texts
trim(t) ==
    CASE t = " \n" -> ""
      [] t = " [null] \n" -> "[null]"
      [] OTHER -> t

\* a parsed JSON object that is a serialized node
JsonObject(node) == [t |-> "object", node |-> node]

\* JSON.parse on these texts (it skips the white space around the value)
JsonParse(t) ==
    CASE trim(t) = "[]" -> Ok(JArray(<<>>), <<>>)
      [] trim(t) = "{\"type\":\"undefined\"}" -> Ok(JsonObject(SerializedUndefined), <<>>)
      [] trim(t) = "[{\"type\":\"undefined\"}]" -> Ok(JArray(<<JsonObject(SerializedUndefined)>>), <<>>)
      [] trim(t) = "null" -> Ok(JNull, <<>>)
      [] trim(t) = "[null]" -> Ok(JArray(<<JNull>>), <<>>)
      [] OTHER -> Throw([t |-> "error", name |-> "SyntaxError", message |-> "Unexpected token"], <<>>)

isArray(v) == v.t = "array"

\* a variant that wraps whatever was parsed
wrapNodesAlways(parsed) == <<parsed>>

\* Array.isArray(parsed) ? parsed : [parsed]
wrapNodes(parsed) == IF isArray(parsed) THEN parsed.elems ELSE <<parsed>>

\* path.resolve(process.cwd(), output) with /work as the working directory
Cwd == "/work"
resolve(cwd, path) == IF path = "" THEN cwd ELSE cwd \o "/" \o path

\* path.dirname on the paths of the model
dirname(path) ==
    CASE path = "/work/out.ts" -> "/work"
      [] path = "/work/gen/out.ts" -> "/work/gen"
      [] path = "/work" -> "/"
      [] OTHER -> "."

\* what toTypeScriptFile (imported from ./index.js) can settle to: a text,
\* an Error, or a thrown value that is no Error
GeneratedOutcomes ==
    { Ok(JStr(""), <<>>), Ok(JStr("undefined;\n"), <<>>),
      Throw(JsError("Unknown node type: undefined"), <<>>), Throw(JStr("boom"), <<>>) }

\* what a file-system call can do: return, or throw an Error
FsOutcomes == { "ok", "EACCES" }
FsCall(fn, path, data, st) == [fn |-> fn, path |-> path, data |-> data, st |-> st]

Stdout(line) == [stream |-> "stdout", line |-> line]
Stderr(line) == [stream |-> "stderr", line |-> line]

\* the catch clause of main: one line on stderr
catchLines(error) ==
    IF error.t = "error" THEN << Stderr("Error: " \o error.message) >>
    ELSE << Stderr("An unknown error occurred.") >>

\* ensureDir(filePath): the mkdirSync call it makes, if any, with its outcome
ensureDir(filePath, mk) ==
    LET dir == dirname(filePath) IN
    IF dir # "" /\ dir # "." THEN << FsCall("mkdirSync", dir, "", mk) >> ELSE <<>>

\* process.exit(code), after the lines written before it
Exit(code, lines) ==
    /\ cliPc' = "exited"
    /\ exitCode' = <<code>>
    /\ stdio' = stdio \o lines

\* main up to its first await: the options, then the start of readStdin
Main ==
    /\ cliPc = "start"
    /\ LET p == parseCliArgs(argv) IN
       IF p.st = "throw"
          THEN Exit(1, catchLines(p.val)) /\ UNCHANGED cliOptions
       ELSE /\ cliOptions' = p.val
            /\ LET verdict == optionsVerdict(p.val) IN
               CASE verdict = "version" -> Exit(0, << Stdout(VERSION) >>)
                 [] verdict = "help" -> Exit(0, printHelp)
                 [] verdict = "noOutput" ->
                        Exit(1, << Stderr("Error: Output file is required. Use -o <file>"),
                                   Stderr("Run \"tsparser --help\" for usage information.") >>)
                 [] OTHER ->
                        IF isTTY
                           THEN Exit(1, catchLines(JsError("No input provided. Pipe JSON data via stdin.\n"
                                    \o "Example: echo '[...]' | tsparser -o output.ts")))
                        ELSE cliPc' = "readingStdin" /\ UNCHANGED <<exitCode, stdio>>
    /\ UNCHANGED <<argv, isTTY, stdinData, cliNodes, generated, fsLog>>
    /\ UNCHANGED <<deserVars, tableWrites, printVars>>

\* stdin ends with the text t: the blank test, JSON.parse, the call of toTypeScriptFile
StdinEnd(t) ==
    /\ cliPc = "readingStdin"
    /\ stdinData' = [st |-> "end", text |-> t]
    /\ IF trim(t) = ""
          THEN Exit(1, << Stderr("Error: No input received from stdin.") >>) /\ UNCHANGED cliNodes
       ELSE LET parsed == JsonParse(t) IN
            IF parsed.st = "throw"
               THEN Exit(1, << Stderr("Error: Invalid JSON input.") >>) /\ UNCHANGED cliNodes
            ELSE /\ cliNodes' = wrapNodes(parsed.val)
                 /\ cliPc' = "generating"
                 /\ UNCHANGED <<exitCode, stdio>>
    /\ UNCHANGED <<argv, isTTY, cliOptions, generated, fsLog>>
    /\ UNCHANGED <<deserVars, tableWrites, printVars>>

\* the stdin stream emits an error: the promise of readStdin is rejected
StdinError ==
    /\ cliPc = "readingStdin"
    /\ stdinData' = [st |-> "error", text |-> ""]
    /\ Exit(1, catchLines(JsError("read EIO")))
    /\ UNCHANGED <<argv, isTTY, cliOptions, cliNodes, generated, fsLog>>
    /\ UNCHANGED <<deserVars, tableWrites, printVars>>

\* toTypeScriptFile settles to g: the rest of main, with the outcomes mk and
\* wr of mkdirSync and writeFileSync
Generated(g, mk, wr) ==
    /\ cliPc = "generating"
    /\ generated' = g
    /\ IF g.st = "throw"
          THEN Exit(1, catchLines(g.val)) /\ UNCHANGED fsLog
       ELSE LET outputPath == resolve(Cwd, cliOptions.output.s)
                made == ensureDir(outputPath, mk)
                write == FsCall("writeFileSync", outputPath, g.val.s, wr)
            IN IF made # <<>> /\ mk # "ok"
                  THEN fsLog' = fsLog \o made
                       /\ Exit(1, catchLines(JsError(mk \o ": permission denied, mkdir")))
               ELSE IF wr # "ok"
                  THEN fsLog' = fsLog \o made \o <<write>>
                       /\ Exit(1, catchLines(JsError(wr \o ": permission denied, open")))
               ELSE /\ fsLog' = fsLog \o made \o <<write>>
                    /\ stdio' = Append(stdio, Stdout("Generated: " \o outputPath))
                    /\ cliPc' = "returned"
                    /\ UNCHANGED exitCode
    /\ UNCHANGED <<argv, isTTY, cliOptions, stdinData, cliNodes>>
    /\ UNCHANGED <<deserVars, tableWrites, printVars>>

\* a run of the program: any command line, stdin a terminal or not
InitCli ==
    /\ input = <<>> /\ call = NoCall /\ result = NoResult /\ tableWrites = 0
    /\ NoPrinting
    /\ argv \in Argvs
    /\ isTTY \in BOOLEAN
    /\ cliPc = "start"
    /\ cliOptions = NoOptions
    /\ stdinData = NoStdinData /\ cliNodes = <<>> /\ generated = NoResult
    /\ fsLog = <<>> /\ exitCode = <<>> /\ stdio = <<>>

NextCli ==
    \/ Main
    \/ \E t \in StdinTexts : StdinEnd(t)
    \/ StdinError
    \/ \E g \in GeneratedOutcomes, mk \in FsOutcomes, wr \in FsOutcomes : Generated(g, mk, wr)

SpecCli == InitCli /\ [][NextCli]_vars

(***************************************************************************)
(* Properties of the printer                                               *)
(***************************************************************************)
\* the raw text of a call, from its arguments alone
RawText(c) ==
    CASE c.op = "printNode" -> printNodeText(c.nodes[1])
      [] c.op = "printNodes" -> printNodesText(c.nodes)
      [] c.op = "printFile" -> printFileText(c.nodes)
      [] c.op = "printNodeList" -> printNodeListText(c.nodes)

\* the invocations whose lintText has resumed
Linted == { i \in DOMAIN pc : pc[i] = "done" /\ lintResult[i] # NoLintResult }

\* the four rules createLinter names
FourRules == { "indent", "quotes", "eol-last", "@typescript-eslint/prefer-as-const" }

\* C3: whenever the style checker's result holds at least one message, the
\* print call fails with the error that embeds the text and every message as
\* "<line>:<column> <message>"; it returns no text.
C3_RemainingMessagesFail ==
    \A i \in Linted :
        (lintResult[i] # <<>> /\ Len(lintResult[i][1].messages) > 0)
        => /\ out[i].st = "throw"
           /\ out[i].val =
                JsError("unable to lint printed node:\n\n" \o text[i] \o "\n\nErrors:\n"
                        \o joinLines([k \in 1..Len(lintResult[i][1].messages) |->
                                         formatMessage(lintResult[i][1].messages[k])]))

\* C4: a call of printNode, printNodes, printFile or printNodeList whose input
\* is empty (no nodes, or an empty raw text) returns "" and creates no style
\* checker.
C4_EmptyInputSkipsLint ==
    \A i \in DOMAIN pc :
        (pc[i] # "idle" /\ (inv[i].nodes = <<>> \/ text[i] = ""))
        => /\ pc[i] = "done"
           /\ out[i] = Ok(JStr(""), <<>>)
           /\ linter[i] = NoLinter
           /\ lintResult[i] = NoLintResult

\* C5, as claimed: the style checker has exactly four active rules.
C5_ExactlyFourRules ==
    \A i \in DOMAIN pc : linter[i] # NoLinter => ActiveRules(linter[i]) = FourRules

\* C5, amended: for every PrinterOptions value the style checker sets exactly
\* four rules itself, each at level "error" -- indent to options.indentWidth
\* (2 when absent), quotes to single when singleQuote is true and to double
\* otherwise, eol-last to never when trailingNewline is false and to always
\* otherwise, and @typescript-eslint/prefer-as-const -- after the shared
\* configurations js recommended, typescript-eslint strict and
\* typescript-eslint stylistic, whose rules are active as well; fixing is on.
C5_FourRulesOverPresets ==
    \A i \in DOMAIN pc :
        linter[i] # NoLinter =>
            LET l == linter[i]
                o == inv[i].options
                own == l.overrideConfig[Len(l.overrideConfig)]
            IN /\ l.fix = TRUE
               /\ Len(l.overrideConfig) = 4
               /\ SubSeq(l.overrideConfig, 1, 3) = <<jsRecommended, tsStrict, tsStylistic>>
               /\ DOMAIN own.rules = FourRules
               /\ own.rules["indent"] =
                    <<"error", IF o.indentWidth = JUndefined THEN 2 ELSE o.indentWidth.n>>
               /\ own.rules["quotes"] =
                    <<"error", IF o.singleQuote = JBool(TRUE) THEN "single" ELSE "double">>
               /\ own.rules["eol-last"] =
                    <<"error", IF o.trailingNewline = JBool(FALSE) THEN "never" ELSE "always">>
               /\ own.rules["@typescript-eslint/prefer-as-const"] = <<"error">>
               /\ FourRules \subseteq ActiveRules(l)
               /\ ActiveRules(l) # FourRules

C5_Witness ==
    \E i \in DOMAIN pc :
        /\ pc[i] = "awaiting"
        /\ inv[i].options = PrinterOptions(JBool(FALSE), JUndefined, JNum(0), JBool(TRUE))
        /\ linter[i].overrideConfig[4].rules["indent"] = <<"error", 0>>
        /\ linter[i].overrideConfig[4].rules["eol-last"] = <<"error", "always">>

\* C8: when the style checker reports nothing (no fixed output, no messages)
\* the call returns the raw text unchanged; when it reports fixed output the
\* call returns exactly that output.
C8_RawOrFixedText ==
    \A i \in Linted :
        LET r == lintResult[i] IN
        /\ text[i] = RawText(inv[i])
        /\ (r = <<>> \/ (r[1].output = JUndefined /\ r[1].messages = <<>>))
            => out[i] = Ok(JStr(text[i]), <<>>)
        /\ (r # <<>> /\ r[1].output # JUndefined)
            => out[i] = Ok(r[1].output, <<>>)

C8_Witness ==
    \E i \in Linted :
        /\ inv[i].op = "printFile"
        /\ lintResult[i] # <<>>
        /\ lintResult[i][1].output = JStr("")
        /\ Len(lintResult[i][1].messages) = 1
        /\ out[i] = Ok(JStr(""), <<>>)

\* what invocation i produces from its own arguments and the style checker's
\* answer to its own question
OwnKey(i) == [linter |-> createLinter(inv[i].options), text |-> RawText(inv[i])]

C10_OwnInstanceOwnResult ==
    /\ tableWrites = 0
    /\ \A i \in DOMAIN pc :
        /\ pc[i] = "awaiting" => linter[i] = createLinter(inv[i].options)
        /\ pc[i] = "done" =>
            IF inv[i].op # "printNodeList" /\ RawText(inv[i]) = ""
            THEN out[i] = Ok(JStr(""), <<>>) /\ linter[i] = NoLinter
            ELSE /\ linter[i] = createLinter(inv[i].options)
                 /\ OwnKey(i) \in DOMAIN eslint
                 /\ out[i] = lintText(RawText(inv[i]), eslint[OwnKey(i)])

\* a step of one invocation leaves every other invocation's variables alone
C10_Frame ==
    \A i \in DOMAIN pc :
        pc'[i] = pc[i] =>
            /\ inv'[i] = inv[i] /\ text'[i] = text[i] /\ linter'[i] = linter[i]
            /\ lintResult'[i] = lintResult[i] /\ out'[i] = out[i]

\* C10: with print invocations interleaved at the await of lintText, each
\* uses the style-checker instance built from its own options and settles to
\* what it settles to alone; no step of one touches another's state, and
\* factoryMap is never written.
C10_Independent == [](C10_OwnInstanceOwnResult) /\ [][C10_Frame]_vars

C10_Witness ==
    /\ pc[1] = "awaiting"
    /\ pc[2] = "done"
    /\ inv[1].options # inv[2].options
    /\ linterLog = <<linter[1], linter[2]>>
    /\ out[2].st = "throw"

(***************************************************************************)
(* Properties of the deserializer                                          *)
(***************************************************************************)
\* the node the last call was made on
CalledNode == input[call.idx]

RECURSIVE ConcatLogs(_, _)
\* the logs of rs[1..n], one after the other
ConcatLogs(rs, n) == IF n = 0 THEN <<>> ELSE ConcatLogs(rs, n - 1) \o rs[n].log

Invocations(log) == { i \in 1..Len(log) : log[i].ev = "invoke" }

\* C1: deserialize of a factory node whose name is neither a key of factoryMap
\* nor "__array__" throws Error("Unknown factory method: <name>"), and no
\* factory is invoked for it.
C1_UnknownFactoryThrows ==
    (/\ call.op = "deserialize"
     /\ isFactory(CalledNode)
     /\ CalledNode.name \notin factoryMap \cup {"__array__"})
    => /\ result.st = "throw"
       /\ result.val = JsError("Unknown factory method: " \o CalledNode.name)
       /\ Invocations(result.log) = {}

\* C2: deserializeStatement returns what deserialize returned when that is a
\* statement, and otherwise, whatever kind of value it is, throws
\* Error("Expected a statement, got: <kind>"); deserializeExpression likewise
\* with "Expected an expression, got: <kind>".
C2_ProjectionTypeMismatch ==
    LET r == deserialize(CalledNode)
        kinds == {kindText(r.val), r.val.t}
    IN /\ (call.op = "deserializeStatement" /\ r.st = "ok")
            => IF isStatement(r.val) THEN result = r
               ELSE /\ result.st = "throw"
                    /\ result.val \in { JsError("Expected a statement, got: " \o k) : k \in kinds }
       /\ (call.op = "deserializeExpression" /\ r.st = "ok")
            => IF isExpression(r.val) THEN result = r
               ELSE /\ result.st = "throw"
                    /\ result.val \in { JsError("Expected an expression, got: " \o k) : k \in kinds }

C7_ArraySentinel ==
    (call.op = "deserialize" /\ isFactory(CalledNode) /\ CalledNode.name = "__array__")
    => LET args == CalledNode.args
           n == Len(args)
           rs == [i \in 1..n |-> deserialize(args[i])]
           failed == { i \in 1..n : rs[i].st = "throw" }
       IN IF failed = {}
          THEN /\ result.st = "ok"
               /\ result.val.t = "array"
               /\ Len(result.val.elems) = n
               /\ \A i \in 1..n : result.val.elems[i] = rs[i].val
               /\ \A i \in 1..n :
                     (isFactory(args[i]) /\ args[i].name = "__array__")
                     => /\ result.val.elems[i].t = "array"
                        /\ Len(result.val.elems[i].elems) = Len(args[i].args)
               /\ result.log = <<EvDeserialize(CalledNode)>> \o ConcatLogs(rs, n)
               /\ \A k \in Invocations(result.log) : result.log[k].name # "__array__"
          ELSE LET m == CHOOSE i \in failed : \A j \in failed : i <= j
               IN /\ result.st = "throw"
                  /\ result.val = rs[m].val

C7_Witness ==
    /\ call.op = "deserialize"
    /\ isFactory(CalledNode)
    /\ CalledNode.name = "__array__"
    /\ Len(CalledNode.args) = 2
    /\ isFactory(CalledNode.args[1])
    /\ CalledNode.args[1].name = "__array__"
    /\ result.st = "ok"
    /\ Len(result.val.elems) = 2
    /\ result.val.elems[1] = JArray(<<>>)

\* C9: deserializeStatements(nodes) returns the sequence, as long as nodes,
\* of deserializeStatement(nodes[i]), or throws what the lowest-index failing
\* element throws; then nothing but the error comes back and no element after
\* the failing one is deserialized.
C9_StatementsAllOrFirstError ==
    (call.op = "deserializeStatements")
    => LET n == Len(input)
           rs == [i \in 1..n |-> deserializeStatement(input[i])]
           failed == { i \in 1..n : rs[i].st = "throw" }
       IN IF failed = {}
          THEN /\ result.st = "ok"
               /\ Len(result.val) = n
               /\ \A i \in 1..n : result.val[i] = rs[i].val
               /\ result.log = ConcatLogs(rs, n)
          ELSE LET m == CHOOSE i \in failed : \A j \in failed : i <= j
               IN /\ result.st = "throw"
                  /\ result.val = rs[m].val
                  /\ result.val.t = "error"
                  /\ result.log = ConcatLogs(rs, m)

C9_Witness ==
    /\ call.op = "deserializeStatements"
    /\ Len(input) = 3
    /\ deserializeStatement(input[1]).st = "ok"
    /\ deserializeStatement(input[2]).st = "throw"
    /\ deserializeStatement(input[3]).st = "throw"
    /\ deserializeStatement(input[3]).val # deserializeStatement(input[2]).val
    /\ result.st = "throw"

RECURSIVE Preorder(_)
RECURSIVE PreorderAll(_)
\* the nodes of a tree, each before its args, the args left to right
Preorder(node) ==
    <<node>> \o (IF isFactory(node) THEN PreorderAll(node.args) ELSE <<>>)

PreorderAll(nodes) ==
    IF nodes = <<>> THEN <<>> ELSE Preorder(Head(nodes)) \o PreorderAll(Tail(nodes))

\* a node whose discriminant is none of the four
UnknownType(node) == node.type \notin {"literal", "number", "factory", "undefined"}

\* a factory node whose name the table does not resolve
UnknownName(node) ==
    isFactory(node) /\ node.name # "__array__" /\ factoryMissing(node.name)

\* a factory node whose name resolves to something that throws when called
\* after the args were evaluated
ThrowsWhenInvoked(node) ==
    /\ isFactory(node) /\ node.name # "__array__" /\ ~factoryMissing(node.name)
    /\ invokeFactory(node.name, <<>>).st = "throw"

\* C11 as stated: deserialize of a tree that holds a node of unknown type,
\* at the top or anywhere inside the args of a factory or array-sentinel node,
\* fails with Error("Unknown node type: <type>") for such a node of the tree.
C11_UnknownTypeAnywhere ==
    LET nodes == Preorder(CalledNode)
        unknown == { k \in 1..Len(nodes) : UnknownType(nodes[k]) }
    IN (call.op = "deserialize" /\ unknown # {})
       => /\ result.st = "throw"
          /\ result.val \in { JsError("Unknown node type: " \o nodes[k].type) : k \in unknown }

\* C11 (amended): deserialize of a node of unknown type fails with
\* Error("Unknown node type: <type>"); deserialize of a tree that holds such
\* a node always fails, and with the error of the first node of the tree, in
\* depth-first left-to-right order, that has an unknown type or is a factory
\* node with an unknown name: that node's "Unknown node type" error,
\* unmodified, or its "Unknown factory method" error (the args of a factory
\* node with an unknown name are never looked at).
C11_FirstFailureWins ==
    LET nodes == Preorder(CalledNode)
        unknown == { k \in 1..Len(nodes) : UnknownType(nodes[k]) }
        failing == { k \in 1..Len(nodes) : UnknownType(nodes[k]) \/ UnknownName(nodes[k]) }
    IN /\ (call.op = "deserialize" /\ UnknownType(CalledNode))
            => result = Throw(JsError("Unknown node type: " \o CalledNode.type),
                              <<EvDeserialize(CalledNode)>>)
       /\ (/\ call.op = "deserialize"
           /\ unknown # {}
           /\ \A k \in 1..Len(nodes) : ~ThrowsWhenInvoked(nodes[k]))
            => LET m == CHOOSE k \in failing : \A j \in failing : k <= j
               IN /\ result.st = "throw"
                  /\ result.val = IF UnknownType(nodes[m])
                                    THEN JsError("Unknown node type: " \o nodes[m].type)
                                    ELSE JsError("Unknown factory method: " \o nodes[m].name)

\* an unknown type two levels down, under a table factory and an array sentinel
C11_Witness ==
    /\ call.op = "deserialize"
    /\ isFactory(CalledNode)
    /\ CalledNode.name = "createExpressionStatement"
    /\ Len(CalledNode.args) = 1
    /\ isFactory(CalledNode.args[1])
    /\ CalledNode.args[1].name = "__array__"
    /\ Len(CalledNode.args[1].args) = 1
    /\ UnknownType(CalledNode.args[1].args[1])
    /\ result.st = "throw"
    /\ result.val = JsError("Unknown node type: template")

\* the nodes of the "deserialize" events of a log, in the order of the log
RECURSIVE Visited(_)
Visited(log) ==
    IF log = <<>> THEN <<>>
    ELSE (IF Head(log).ev = "deserialize" THEN <<Head(log).node>> ELSE <<>>)
         \o Visited(Tail(log))

\* C12: deserialize of a factory node whose name is a key of factoryMap
\* evaluates args[1], args[2], ... in this order, each once and each wholly
\* (its own args included) before the next; when all have returned it invokes
\* the named factory once, last, with exactly Len(args) arguments, the i-th
\* being what deserialize(args[i]) returned.  When an argument throws, the
\* call throws the same, nothing to the right of that argument is evaluated
\* and the factory is not invoked.
C12_ArgsThenInvoke ==
    (/\ call.op = "deserialize"
     /\ isFactory(CalledNode)
     /\ CalledNode.name \in factoryMap)
    => LET args == CalledNode.args
           n == Len(args)
           rs == [i \in 1..n |-> deserialize(args[i])]
           vals == [i \in 1..n |-> rs[i].val]
           failed == { i \in 1..n : rs[i].st = "throw" }
           last == result.log[Len(result.log)]
       IN IF failed = {}
          THEN /\ result.st = "ok"
               /\ result.val = TsNode(CalledNode.name, vals)
               /\ result.log = <<EvDeserialize(CalledNode)>> \o ConcatLogs(rs, n)
                                   \o <<EvInvoke(CalledNode.name, vals)>>
               /\ last.ev = "invoke" /\ Len(last.args) = n
               /\ Visited(result.log) = Preorder(CalledNode)
          ELSE LET m == CHOOSE i \in failed : \A j \in failed : i <= j
               IN /\ result.st = "throw"
                  /\ result.val = rs[m].val
                  /\ result.log = <<EvDeserialize(CalledNode)>> \o ConcatLogs(rs, m)
                  /\ last.ev = "deserialize"
                  /\ Len(Visited(result.log)) <= 1 + Len(PreorderAll(SubSeq(args, 1, m)))

\* two different arguments, both evaluated, then the one invocation
C12_Witness ==
    /\ call.op = "deserialize"
    /\ isFactory(CalledNode)
    /\ CalledNode.name = "createIdentifier"
    /\ Len(CalledNode.args) = 2
    /\ CalledNode.args[1] = SerializedLiteral(JStr("hi"))
    /\ CalledNode.args[2] = SerializedNumber(JStr("42"))
    /\ result.st = "ok"
    /\ result.log = << EvDeserialize(CalledNode),
                       EvDeserialize(CalledNode.args[1]),
                       EvDeserialize(CalledNode.args[2]),
                       EvInvoke("createIdentifier", <<JStr("hi"), JNum(42)>>) >>

(***************************************************************************)
(* Properties of the command-line entry point                              *)
(***************************************************************************)
Given(token) == \E k \in 1..Len(argv) : argv[k] = token

\* the options were returned and pass the three tests of main
OptionsAccepted ==
    /\ cliOptions # NoOptions
    /\ ~truthy(cliOptions.version) /\ ~truthy(cliOptions.help)
    /\ truthy(cliOptions.output)
    /\ ~Given("--version") /\ ~Given("--help")

\* something went wrong in the run so far: the command line, a missing
\* output path, stdin, the JSON, the generation or the file system
RunFailed ==
    /\ cliPc # "start"
    /\ \/ parseCliArgs(argv).st = "throw"
       \/ /\ cliOptions # NoOptions
          /\ ~truthy(cliOptions.version) /\ ~truthy(cliOptions.help)
          /\ ~truthy(cliOptions.output) \/ isTTY
       \/ stdinData.st = "error"
       \/ stdinData.st = "end" /\ (trim(stdinData.text) = "" \/ JsonParse(stdinData.text).st = "throw")
       \/ generated.st = "throw"
       \/ \E k \in 1..Len(fsLog) : fsLog[k].st # "ok"

\* C13: in every run of main, mkdirSync and writeFileSync are called only
\* when the options were accepted (no --version, no --help, an output path),
\* stdin has ended with a text that is not blank and is JSON, and
\* toTypeScriptFile has returned; the directory comes before the file, and the
\* file is the resolved output path with the generated text.  A run in which
\* something failed has ended with process.exit(1); a run with --version or
\* --help has ended with process.exit(0) and has read and written nothing.
\* What JSON.parse returned is handed on as it is when it is an array, and as
\* a one-element array otherwise.
C13_WriteOnlyAfterAllChecks ==
    /\ fsLog # <<>>
        => /\ OptionsAccepted
           /\ ~isTTY
           /\ stdinData.st = "end"
           /\ trim(stdinData.text) # ""
           /\ JsonParse(stdinData.text).st = "ok"
           /\ generated.st = "ok"
           /\ fsLog[1].fn = "mkdirSync"
           /\ \A k \in 1..Len(fsLog) :
                 fsLog[k].fn = "writeFileSync"
                 => /\ k = 2 /\ fsLog[1].st = "ok"
                    /\ fsLog[k].path = Cwd \o "/" \o cliOptions.output.s
                    /\ fsLog[k].data = generated.val.s
    /\ RunFailed => (cliPc = "exited" /\ exitCode = <<1>>)
    /\ (cliPc # "start" /\ parseCliArgs(argv).st = "ok" /\ (Given("--version") \/ Given("--help")))
        => /\ cliPc = "exited" /\ exitCode = <<0>>
           /\ fsLog = <<>> /\ stdinData = NoStdinData
    /\ exitCode = <<0>> => (Given("--version") \/ Given("--help"))
    /\ cliPc = "returned"
        => /\ ~RunFailed /\ exitCode = <<>>
           /\ Len(fsLog) = 2 /\ fsLog[2].fn = "writeFileSync" /\ fsLog[2].st = "ok"
    /\ (cliPc = "generating" \/ generated.st # "none")
        => LET parsed == JsonParse(stdinData.text).val
           IN IF parsed.t = "array" THEN cliNodes = parsed.elems
              ELSE Len(cliNodes) = 1 /\ cliNodes[1] = parsed

\* a run that wrote the file, from one node that came without an array
C13_Witness ==
    /\ argv = <<"-o", "gen/out.ts">>
    /\ stdinData = [st |-> "end", text |-> "{\"type\":\"undefined\"}"]
    /\ cliNodes = << JsonObject(SerializedUndefined) >>
    /\ cliPc = "returned"
    /\ fsLog = << FsCall("mkdirSync", "/work/gen", "", "ok"),
                  FsCall("writeFileSync", "/work/gen/out.ts", "undefined;\n", "ok") >>

====
